---- MODULE Spec2Model ----
(***************************************************************************)
(* Model of match_id_checker_api.py: the /check-match-id/ handler, the     *)
(* Redis cache it reads and writes, and the MongoDB collections it reads   *)
(* (match_ids, users.clusters).  Instants are seconds; a datetime is an    *)
(* integer number of seconds.                                              *)
(***************************************************************************)
EXTENDS Integers, Sequences, FiniteSets, TLC

VARIABLES
    now,        \* datetime.now()
    match_ids,  \* collection match_ids: match_id -> MatchId document or None
    clusters,   \* users.clusters: cluster_name -> ClusterDetails or None
    cache,      \* Redis db 0: function from the keys present to their entries
    last,       \* observation of the check_match_id call just made
    memo        \* pair, status and instant of the most recent call when it
                \* returned an active status, while the store has not changed
                \* since

vars == <<now, match_ids, clusters, cache, last, memo>>

\* Python's None / JSON null is the empty tuple; a present value x is <<x>>
None == <<>>
Some(x) == <<x>>
Val(v) == v[1]

\* ---------------------------------------------------------------- bounds
\* The clock runs from 0 to MaxNow.
MaxNow == 7200

\* ------------------------------------------------------ program constants
\* redis_client.setex(cache_key, 3600, ...)
CACHE_TTL == 3600
\* timedelta(days=1) in seconds
SecondsPerDay == 86400

HalfTTL == CACHE_TTL \div 2

\* ----------------------------------------------------------- input sets
ApiKeys == {"", "k1", "k2"}
MatchIdArgs == {"", "m1"}
StoredMatchIds == {"m1"}
ClusterNames == {"c1"}
ClusterKeys == {"k1", "k2"}
TrialPeriods == {0, 1}
\* <<created_on, is_trial>> of the documents: a trial document created
\* HalfTTL short of one day ago (a one-day trial ends at HalfTTL) and a
\* paid document created at instant 0
RecordShapes == {<<HalfTTL - SecondsPerDay, TRUE>>, <<0, FALSE>>}
ValidTillValues == {HalfTTL, CACHE_TTL + HalfTTL}
TickSteps == {HalfTTL, CACHE_TTL}
\* the collaborator call that raises during a request ("none": no failure)
Faults == {"none", "redis.get", "json.loads", "MatchId.objects",
           "UserProfile.objects", "redis.setex"}

\* ------------------------------------------------------------ documents
\* class MatchId(Document)
MatchId(match_id, cluster_name, created_on, last_paid_on, valid_till, is_trial) ==
    [match_id |-> match_id, cluster_name |-> cluster_name,
     created_on |-> created_on, last_paid_on |-> last_paid_on,
     valid_till |-> valid_till, is_trial |-> is_trial]

\* class ClusterDetails(EmbeddedDocument): the fields the handler reads
ClusterDetails(cluster_name, api_key, trial_period) ==
    [cluster_name |-> cluster_name, api_key |-> api_key,
     trial_period |-> trial_period]

\* ------------------------------------------------------------- helpers
\* f"match_id:{api_key}:{match_id}"
get_cache_key(api_key, match_id) == "match_id:" \o api_key \o ":" \o match_id

\* (mutant) the time of day is dropped when a datetime is formatted
isoformat_dateOnly(t) == [date |-> t \div SecondsPerDay, time |-> 0]

\* datetime.isoformat(): the date part and the time-of-day part, separately
isoformat(t) == [date |-> t \div SecondsPerDay, time |-> t % SecondsPerDay]

\* datetime.fromisoformat()
fromisoformat(s) == s.date * SecondsPerDay + s.time

\* json.dumps / json.loads of the cached dictionary (null for None)
json_dumps(d) == [json |-> d]
json_loads(s) == s.json

\* (mutant) last_paid_on is left out of the dictionary
serialize_match_id_noLastPaid(match_id_obj) ==
    IF match_id_obj = None THEN None
    ELSE LET o == Val(match_id_obj) IN
         Some([match_id |-> o.match_id,
               cluster_name |-> o.cluster_name,
               created_on |-> IF o.created_on # None
                              THEN Some(isoformat(Val(o.created_on))) ELSE None,
               last_paid_on |-> None,
               valid_till |-> IF o.valid_till # None
                              THEN Some(isoformat(Val(o.valid_till))) ELSE None,
               is_trial |-> o.is_trial])

\* (mutant) valid_till is left out of the dictionary
serialize_match_id_noValidTill(match_id_obj) ==
    IF match_id_obj = None THEN None
    ELSE LET o == Val(match_id_obj) IN
         Some([match_id |-> o.match_id,
               cluster_name |-> o.cluster_name,
               created_on |-> IF o.created_on # None
                              THEN Some(isoformat(Val(o.created_on))) ELSE None,
               last_paid_on |-> IF o.last_paid_on # None
                                THEN Some(isoformat(Val(o.last_paid_on))) ELSE None,
               valid_till |-> None,
               is_trial |-> o.is_trial])

\* serialize_match_id(match_id_obj)
serialize_match_id(match_id_obj) ==
    IF match_id_obj = None THEN None
    ELSE LET o == Val(match_id_obj) IN
         Some([match_id |-> o.match_id,
               cluster_name |-> o.cluster_name,
               created_on |-> IF o.created_on # None
                              THEN Some(isoformat(Val(o.created_on))) ELSE None,
               last_paid_on |-> IF o.last_paid_on # None
                                THEN Some(isoformat(Val(o.last_paid_on))) ELSE None,
               valid_till |-> IF o.valid_till # None
                              THEN Some(isoformat(Val(o.valid_till))) ELSE None,
               is_trial |-> o.is_trial])

\* _get_cluster_from_user(cluster_name, api_key): the cluster of the first
\* user owning a cluster of that name, None when there is no such user.  The
\* Django fallback is only tried when the user found has no such cluster,
\* which the query excludes.
_get_cluster_from_user(cluster_name) ==
    IF cluster_name \in DOMAIN clusters THEN clusters[cluster_name] ELSE None

\* MatchId.objects(match_id=match_id).first()
MatchId_objects_first(match_id) ==
    IF match_id \in DOMAIN match_ids THEN match_ids[match_id] ELSE None

\* redis_client.get(cache_key)
redis_get(cache_key) ==
    IF cache_key \in DOMAIN cache THEN Some(cache[cache_key].value) ELSE None

\* redis_client.setex(cache_key, ttl, value) at instant t
redis_setex(c, cache_key, ttl, value, t) ==
    [k \in DOMAIN c \cup {cache_key} |->
        IF k = cache_key THEN [value |-> value, set_at |-> t, ttl |-> ttl]
        ELSE c[k]]

\* Redis drops an entry once its time-to-live has elapsed
Unexpired(c, t) ==
    LET live == {k \in DOMAIN c : t < c[k].set_at + c[k].ttl}
    IN [k \in live |-> c[k]]

\* ------------------------------------------------- what a request yields
\* a JSONResponse returned, an HTTPException raised, or any other exception;
\* ops lists the collaborator calls made, c is the cache afterwards
JSONResponse(code, ops, c) ==
    [kind |-> "JSONResponse", code |-> code, ops |-> ops, c |-> c]
HTTPException(code, ops, c) ==
    [kind |-> "HTTPException", code |-> code, ops |-> ops, c |-> c]
Exception(ops, c) ==
    [kind |-> "Exception", code |-> 0, ops |-> ops, c |-> c]

\* (mutant) the request is refused only when both arguments are empty
InputsMissing_both(api_key, match_id) == api_key = "" /\ match_id = ""

\* if not api_key or not match_id
InputsMissing(api_key, match_id) == api_key = "" \/ match_id = ""

\* (mutant) only a missing cluster is refused, the key is not compared
KeyRejected_missingOnly(cluster, api_key) == cluster = None

\* if not cluster or cluster.api_key != api_key   (hit and miss path alike)
KeyRejected(cluster, api_key) ==
    cluster = None \/ Val(cluster).api_key # api_key

\* ------------------------------------------------------------ hit path
\* (mutant) the paid window is still open at the instant valid_till
HitIsActive_inclusive(data, t) ==
    /\ data.valid_till # None
    /\ t <= fromisoformat(Val(data.valid_till))

\* if valid_till and datetime.now() < valid_till: is_active = True
HitIsActive(data, t) ==
    /\ data.valid_till # None
    /\ t < fromisoformat(Val(data.valid_till))

\* if is_trial and created_on and trial_period > 0:
\*     in_trial = datetime.now() <= created_on + timedelta(days=trial_period)
HitInTrial(data, cluster, t) ==
    /\ data.is_trial
    /\ data.created_on # None
    /\ cluster.trial_period > 0
    /\ t <= fromisoformat(Val(data.created_on))
              + cluster.trial_period * SecondsPerDay

\* (mutant) an entry holding a valid_till is trusted whatever the clock says
HitStatus_trusting(data, cluster, t) ==
    IF data.valid_till # None
    THEN IF data.is_trial /\ data.created_on # None /\ cluster.trial_period > 0
         THEN 201 ELSE 200
    ELSE 410

\* the response of the hit path once the key is accepted
HitStatus(data, cluster, t) ==
    IF HitIsActive(data, t)
    THEN IF data.is_trial /\ HitInTrial(data, cluster, t) THEN 201 ELSE 200
    ELSE 410

\* (mutant) the hit path reads the document again before it answers
CacheHit_rereading(cached_data, api_key, fault, ops) ==
    IF fault = "json.loads" THEN Exception(ops, cache)
    ELSE
    LET data == Val(json_loads(Val(cached_data)))
        ops1 == ops \o <<"MatchId.objects", "UserProfile.objects">>
    IN  IF fault \in {"MatchId.objects", "UserProfile.objects"}
        THEN Exception(ops1, cache)
        ELSE
        LET cluster == _get_cluster_from_user(data.cluster_name)
        IN  IF KeyRejected(cluster, api_key)
            THEN HTTPException(404, ops1, cache)
            ELSE LET code == HitStatus(data, Val(cluster), now)
                 IN  IF code = 410 THEN HTTPException(410, ops1, cache)
                     ELSE JSONResponse(code, ops1, cache)

\* (mutant) a hit takes valid_till from the document in match_ids when
\* there is one
CacheHit_reconciling(cached_data, api_key, fault, ops) ==
    IF fault = "json.loads" THEN Exception(ops, cache)
    ELSE
    LET cached == Val(json_loads(Val(cached_data)))
        stored == MatchId_objects_first(cached.match_id)
        data == IF stored = None THEN cached
                ELSE Val(serialize_match_id(stored))
        ops1 == Append(ops, "UserProfile.objects")
    IN  IF fault = "UserProfile.objects" THEN Exception(ops1, cache)
        ELSE
        LET cluster == _get_cluster_from_user(data.cluster_name)
        IN  IF KeyRejected(cluster, api_key)
            THEN HTTPException(404, ops1, cache)
            ELSE LET code == HitStatus(data, Val(cluster), now)
                 IN  IF code = 410 THEN HTTPException(410, ops1, cache)
                     ELSE JSONResponse(code, ops1, cache)

\* (mutant) a hit that answers renews the time-to-live of its entry
CacheHit_refreshing(cached_data, api_key, fault, ops) ==
    IF fault = "json.loads" THEN Exception(ops, cache)
    ELSE
    LET data == Val(json_loads(Val(cached_data)))
        ops1 == Append(ops, "UserProfile.objects")
        c == redis_setex(cache, get_cache_key(api_key, data.match_id),
                         CACHE_TTL, Val(cached_data), now)
    IN  IF fault = "UserProfile.objects" THEN Exception(ops1, cache)
        ELSE
        LET cluster == _get_cluster_from_user(data.cluster_name)
        IN  IF KeyRejected(cluster, api_key)
            THEN HTTPException(404, ops1, cache)
            ELSE LET code == HitStatus(data, Val(cluster), now)
                 IN  IF code = 410 THEN HTTPException(410, ops1, c)
                     ELSE JSONResponse(code, ops1, c)

\* if cached_data is not None: ... (the cache is never written here)
CacheHit(cached_data, api_key, fault, ops) ==
    IF fault = "json.loads" THEN Exception(ops, cache)
    ELSE
    LET data == Val(json_loads(Val(cached_data)))
        ops1 == Append(ops, "UserProfile.objects")
    IN  IF fault = "UserProfile.objects" THEN Exception(ops1, cache)
        ELSE
        LET cluster == _get_cluster_from_user(data.cluster_name)
        IN  IF KeyRejected(cluster, api_key)
            THEN HTTPException(404, ops1, cache)
            ELSE LET code == HitStatus(data, Val(cluster), now)
                 IN  IF code = 410 THEN HTTPException(410, ops1, cache)
                     ELSE JSONResponse(code, ops1, cache)

\* ----------------------------------------------------------- miss path
\* is_active = expiry_date and datetime.now() < expiry_date
MissIsActive(match_id_obj, t) ==
    /\ match_id_obj.valid_till # None
    /\ t < Val(match_id_obj.valid_till)

\* if match_id_obj.is_trial and trial_period > 0:
\*     in_trial = datetime.now() <= created_on + timedelta(days=trial_period)
MissInTrial(match_id_obj, cluster, t) ==
    /\ match_id_obj.is_trial
    /\ cluster.trial_period > 0
    /\ t <= Val(match_id_obj.created_on) + cluster.trial_period * SecondsPerDay

\* (mutant) an open trial window alone yields Trial Active
MissStatus_trialFirst(match_id_obj, cluster, t) ==
    IF match_id_obj.is_trial /\ MissInTrial(match_id_obj, cluster, t) THEN 201
    ELSE IF MissIsActive(match_id_obj, t) THEN 200
    ELSE 410

\* the response of the miss path once the entry is written
MissStatus(match_id_obj, cluster, t) ==
    IF MissIsActive(match_id_obj, t)
    THEN IF match_id_obj.is_trial /\ MissInTrial(match_id_obj, cluster, t)
         THEN 201 ELSE 200
    ELSE 410

\* (mutant) the entry is given half the time-to-live
CacheStore_halfTTL(c, cache_key, match_id_obj, t) ==
    redis_setex(c, cache_key, HalfTTL,
                json_dumps(serialize_match_id(match_id_obj)), t)

\* cache_data = serialize_match_id(match_id_obj)
\* redis_client.setex(cache_key, 3600, json.dumps(cache_data))
CacheStore(c, cache_key, match_id_obj, t) ==
    redis_setex(c, cache_key, CACHE_TTL,
                json_dumps(serialize_match_id(match_id_obj)), t)

\* (mutant) the entry is written as soon as the document is found
MissFound_storeEarly(cache_key, api_key, match_id_obj, fault, ops) ==
    LET ops2 == ops \o <<"redis.setex", "UserProfile.objects">>
        c == CacheStore(cache, cache_key, match_id_obj, now)
    IN  IF fault \in {"redis.setex", "UserProfile.objects"}
        THEN Exception(ops2, cache)
        ELSE
        LET cluster == _get_cluster_from_user(Val(match_id_obj).cluster_name)
        IN  IF KeyRejected(cluster, api_key)
            THEN HTTPException(404, ops2, c)
            ELSE
            LET code == MissStatus(Val(match_id_obj), Val(cluster), now)
            IN  IF code = 410 THEN HTTPException(410, ops2, c)
                ELSE JSONResponse(code, ops2, c)

\* Validate API key against cluster; Check if active; Store in cache; respond
MissFound(cache_key, api_key, match_id_obj, fault, ops) ==
    LET ops2 == Append(ops, "UserProfile.objects")
    IN  IF fault = "UserProfile.objects" THEN Exception(ops2, cache)
        ELSE
        LET cluster == _get_cluster_from_user(Val(match_id_obj).cluster_name)
        IN  IF KeyRejected(cluster, api_key)
            THEN HTTPException(404, ops2, cache)
            ELSE
            LET code == MissStatus(Val(match_id_obj), Val(cluster), now)
                ops3 == Append(ops2, "redis.setex")
            IN  IF fault = "redis.setex" THEN Exception(ops3, cache)
                ELSE
                LET c == CacheStore(cache, cache_key, match_id_obj, now)
                IN  IF code = 410 THEN HTTPException(410, ops3, c)
                    ELSE JSONResponse(code, ops3, c)

\* (mutant) the access key is looked up among all clusters before the
\* document is read
CacheMiss_keyFirst(cache_key, api_key, match_id, fault, ops) ==
    LET ops1 == Append(ops, "UserProfile.objects")
    IN  IF fault = "UserProfile.objects" THEN Exception(ops1, cache)
        ELSE IF \A cn \in DOMAIN clusters :
                    KeyRejected(clusters[cn], api_key)
        THEN HTTPException(404, ops1, cache)
        ELSE
        LET ops2 == Append(ops1, "MatchId.objects")
        IN  IF fault = "MatchId.objects" THEN Exception(ops2, cache)
            ELSE
            LET match_id_obj == MatchId_objects_first(match_id)
            IN  IF match_id_obj = None THEN HTTPException(422, ops2, cache)
                ELSE MissFound(cache_key, api_key, match_id_obj, fault, ops2)

\* Cache miss - fetch from MongoDB
CacheMiss(cache_key, api_key, match_id, fault, ops) ==
    LET ops1 == Append(ops, "MatchId.objects")
    IN  IF fault = "MatchId.objects" THEN Exception(ops1, cache)
        ELSE
        LET match_id_obj == MatchId_objects_first(match_id)
        IN  IF match_id_obj = None THEN HTTPException(422, ops1, cache)
            ELSE MissFound(cache_key, api_key, match_id_obj, fault, ops1)

\* ------------------------------------------------------------- handler
\* the body of the try block
TryBlock(api_key, match_id, fault) ==
    LET cache_key == get_cache_key(api_key, match_id)
        ops == <<"redis.get">>
    IN  IF fault = "redis.get" THEN Exception(ops, cache)
        ELSE LET cached_data == redis_get(cache_key)
             IN  IF cached_data # None
                 THEN CacheHit(cached_data, api_key, fault, ops)
                 ELSE CacheMiss(cache_key, api_key, match_id, fault, ops)

\* (mutant) every exception, HTTPException included, becomes a 500
ExceptClauses_catchAll(r) ==
    IF r.kind \in {"Exception", "HTTPException"}
    THEN HTTPException(500, r.ops, r.c) ELSE r

\* except HTTPException as e: raise e
\* except Exception as e: raise HTTPException(status_code=500, ...)
ExceptClauses(r) ==
    IF r.kind = "Exception" THEN HTTPException(500, r.ops, r.c) ELSE r

\* check_match_id(api_key, match_id)
check_match_id(api_key, match_id, fault) ==
    IF InputsMissing(api_key, match_id)
    THEN HTTPException(400, <<>>, cache)
    ELSE ExceptClauses(TryBlock(api_key, match_id, fault))

\* ---------------------------------------------------------- observation
\* what is recorded of the call just made: its arguments, the HTTP status,
\* the collaborator calls in order, the collaborator that raised ("none" if
\* none did), the status the try block ended with before the except clauses
\* (0 for an exception that is no HTTPException), whether redis_client.get
\* returned an entry (hit), and the status of the call before it when that
\* call returned an active status for the same pair less than CACHE_TTL
\* seconds ago and the store has not changed in between (0 otherwise).  Any other step
\* resets the observation to NoCall.
NoCall ==
    [api_key |-> "", match_id |-> "", code |-> 0, ops |-> <<>>,
     raised |-> "none", inner |-> 0, hit |-> FALSE, before |-> 0]

NoMemo == [api_key |-> "", match_id |-> "", code |-> 0, at |-> 0]

\* ------------------------------------------------------------- initially
Init ==
    /\ now = 0
    /\ match_ids \in
         [StoredMatchIds ->
            {None} \cup
            {Some(MatchId(m, cn, Some(sh[1]), None, vt, sh[2])) :
                m \in StoredMatchIds, cn \in ClusterNames,
                sh \in RecordShapes,
                vt \in {None} \cup {Some(v) : v \in ValidTillValues}}]
    /\ \A m \in StoredMatchIds :
          match_ids[m] # None => Val(match_ids[m]).match_id = m
    /\ clusters \in
         [ClusterNames ->
            {Some(ClusterDetails(cn, "k1", tp)) :
                cn \in ClusterNames, tp \in TrialPeriods}]
    /\ \A cn \in ClusterNames : Val(clusters[cn]).cluster_name = cn
    /\ cache = << >>
    /\ last = NoCall
    /\ memo = NoMemo

\* --------------------------------------------------------------- actions
\* GET /check-match-id/?api_key=...&match_id=...
Check(api_key, match_id, fault) ==
    LET r0 == IF InputsMissing(api_key, match_id)
              THEN HTTPException(400, <<>>, cache)
              ELSE TryBlock(api_key, match_id, fault)
        r == check_match_id(api_key, match_id, fault)
    IN  \* the collaborator chosen to fail is one the request calls
        /\ fault = "none" \/ r0.kind = "Exception"
        /\ cache' = r.c
        /\ last' = [api_key |-> api_key, match_id |-> match_id,
                    code |-> r.code, ops |-> r.ops,
                    raised |-> IF r0.kind = "Exception" THEN fault ELSE "none",
                    inner |-> r0.code,
                    hit |-> /\ ~InputsMissing(api_key, match_id)
                            /\ fault # "redis.get"
                            /\ redis_get(get_cache_key(api_key, match_id)) # None,
                    before |-> IF /\ memo.api_key = api_key
                                  /\ memo.match_id = match_id
                                  /\ now - memo.at < CACHE_TTL
                               THEN memo.code ELSE 0]
        /\ memo' = IF r.code \in {200, 201}
                   THEN [api_key |-> api_key, match_id |-> match_id,
                         code |-> r.code, at |-> now]
                   ELSE NoMemo
        /\ UNCHANGED <<now, match_ids, clusters>>

\* time passes; Redis expires the entries whose time-to-live has elapsed
Tick(d) ==
    /\ now + d <= MaxNow
    /\ now' = now + d
    /\ cache' = Unexpired(cache, now + d)
    /\ last' = NoCall
    /\ UNCHANGED <<match_ids, clusters, memo>>

\* a payment extends valid_till into the future (external writer)
Pay(m, v) ==
    /\ match_ids[m] # None
    /\ v > now
    /\ Val(match_ids[m]).valid_till # None => v > Val(Val(match_ids[m]).valid_till)
    /\ match_ids' = [match_ids EXCEPT ![m] =
          Some([Val(@) EXCEPT !.valid_till = Some(v),
                              !.last_paid_on = Some(now)])]
    /\ last' = NoCall
    /\ memo' = NoMemo
    /\ UNCHANGED <<now, clusters, cache>>

\* the document is removed from match_ids (external writer)
DeleteRecord(m) ==
    /\ match_ids[m] # None
    /\ match_ids' = [match_ids EXCEPT ![m] = None]
    /\ last' = NoCall
    /\ memo' = NoMemo
    /\ UNCHANGED <<now, clusters, cache>>

\* the cluster's api_key or trial_period is changed (external writer)
SetCluster(cn, key, tp) ==
    /\ clusters[cn] # Some(ClusterDetails(cn, key, tp))
    /\ clusters' = [clusters EXCEPT ![cn] = Some(ClusterDetails(cn, key, tp))]
    /\ last' = NoCall
    /\ memo' = NoMemo
    /\ UNCHANGED <<now, match_ids, cache>>

\* the cluster is removed from its user (external writer)
RemoveCluster(cn) ==
    /\ clusters[cn] # None
    /\ clusters' = [clusters EXCEPT ![cn] = None]
    /\ last' = NoCall
    /\ memo' = NoMemo
    /\ UNCHANGED <<now, match_ids, cache>>

Next ==
    \/ \E k \in ApiKeys, m \in MatchIdArgs, f \in Faults : Check(k, m, f)
    \/ \E d \in TickSteps : Tick(d)
    \/ \E m \in StoredMatchIds, v \in ValidTillValues : Pay(m, v)
    \/ \E m \in StoredMatchIds : DeleteRecord(m)
    \/ \E cn \in ClusterNames, key \in ClusterKeys, tp \in TrialPeriods :
          SetCluster(cn, key, tp)
    \/ \E cn \in ClusterNames : RemoveCluster(cn)

Spec == Init /\ [][Next]_vars

\* ---------------------------------------------------------------------
\* Requests whose arguments contain the separator of the cache key.
\* Cluster c1 (api_key "a:b") owns the document "c", cluster c2 (api_key
\* "a") owns the document "b:c"; the store does not change.
SepApiKeys == {"a", "a:b"}
SepMatchIds == {"c", "b:c"}
SepOwner(m) == IF m = "c" THEN "c1" ELSE "c2"
SepKeyOf(cn) == IF cn = "c1" THEN "a:b" ELSE "a"

InitSep ==
    /\ now = 0
    /\ match_ids \in
         [SepMatchIds ->
            {Some(MatchId(m, SepOwner(m), Some(0), None, vt, FALSE)) :
                m \in SepMatchIds,
                vt \in {None} \cup {Some(v) : v \in ValidTillValues}}]
    /\ \A m \in SepMatchIds : Val(match_ids[m]).match_id = m
    /\ clusters = [cn \in {"c1", "c2"} |->
                      Some(ClusterDetails(cn, SepKeyOf(cn), 0))]
    /\ cache = << >>
    /\ last = NoCall
    /\ memo = NoMemo

NextSep ==
    \/ \E k \in SepApiKeys, m \in SepMatchIds : Check(k, m, "none")
    \/ \E d \in TickSteps : Tick(d)

SpecSep == InitSep /\ [][NextSep]_vars

\* ---------------------------------------------------------------------
\* Concurrent requests for one pair.  Each request is a sequence of steps,
\* one per collaborator call; the steps of different requests interleave.
\* Here last maps each request to its local variables and memo holds the
\* pair and the cache as it was before the first request started.  The
\* store may change before the first request starts, not afterwards.
Racers == 2
RaceProcs == 1..Racers

RaceKey == get_cache_key(memo.api_key, memo.match_id)

RaceLocals(pc, data, obj, code, hit, lone_hit, at) ==
    [pc |-> pc, data |-> data, obj |-> obj, code |-> code, hit |-> hit,
     lone_hit |-> lone_hit, at |-> at]

InitRace ==
    /\ now = 0
    /\ match_ids \in
         [StoredMatchIds ->
            {None} \cup
            {Some(MatchId(m, cn, Some(sh[1]), None, vt, sh[2])) :
                m \in StoredMatchIds, cn \in ClusterNames,
                sh \in RecordShapes,
                vt \in {None} \cup {Some(v) : v \in ValidTillValues}}]
    /\ \A m \in StoredMatchIds :
          match_ids[m] # None => Val(match_ids[m]).match_id = m
    /\ clusters \in
         [ClusterNames ->
            {Some(ClusterDetails(cn, "k1", tp)) :
                cn \in ClusterNames, tp \in TrialPeriods}]
    /\ \A cn \in ClusterNames : Val(clusters[cn]).cluster_name = cn
    /\ \E k \in ClusterKeys, m \in StoredMatchIds :
          \* an earlier request of the pair may have left its entry
          /\ cache \in
               IF /\ match_ids[m] # None
                  /\ ~KeyRejected(clusters[Val(match_ids[m]).cluster_name], k)
               THEN {<< >>,
                     CacheStore(<< >>, get_cache_key(k, m), match_ids[m], 0)}
               ELSE {<< >>}
          /\ memo = [api_key |-> k, match_id |-> m, cache0 |-> cache]
    /\ last = [p \in RaceProcs |->
                 RaceLocals("get", None, None, 0, FALSE, FALSE, 0)]

RaceNotStarted == \A p \in RaceProcs : last[p].pc = "get"

\* cached_data = redis_client.get(cache_key); data = json.loads(cached_data)
RaceGet(p) ==
    /\ last[p].pc = "get"
    /\ LET cached_data == redis_get(RaceKey)
           lone == RaceKey \in DOMAIN Unexpired(memo.cache0, now)
       IN  last' = [last EXCEPT ![p] =
              IF cached_data # None
              THEN RaceLocals("hit", json_loads(Val(cached_data)), None, 0,
                              TRUE, lone, 0)
              ELSE RaceLocals("miss", None, None, 0, FALSE, lone, 0)]
    /\ UNCHANGED <<now, match_ids, clusters, cache, memo>>

\* hit: _get_cluster_from_user, the key check and the status, no cache write
RaceHit(p) ==
    /\ last[p].pc = "hit"
    /\ LET data == Val(last[p].data)
           cluster == _get_cluster_from_user(data.cluster_name)
           code == IF KeyRejected(cluster, memo.api_key) THEN 404
                   ELSE HitStatus(data, Val(cluster), now)
       IN  last' = [last EXCEPT ![p].pc = "done", ![p].code = code,
                                ![p].at = now]
    /\ UNCHANGED <<now, match_ids, clusters, cache, memo>>

\* miss: match_id_obj = MatchId.objects(match_id=match_id).first()
RaceRecord(p) ==
    /\ last[p].pc = "miss"
    /\ LET match_id_obj == MatchId_objects_first(memo.match_id)
       IN  last' = [last EXCEPT ![p] =
              IF match_id_obj = None
              THEN [@ EXCEPT !.pc = "done", !.code = 422, !.at = now]
              ELSE [@ EXCEPT !.pc = "found", !.obj = match_id_obj]]
    /\ UNCHANGED <<now, match_ids, clusters, cache, memo>>

\* miss: _get_cluster_from_user, the key check and the status
RaceCluster(p) ==
    /\ last[p].pc = "found"
    /\ LET obj == Val(last[p].obj)
           cluster == _get_cluster_from_user(obj.cluster_name)
       IN  last' = [last EXCEPT ![p] =
              IF KeyRejected(cluster, memo.api_key)
              THEN [@ EXCEPT !.pc = "done", !.code = 404, !.at = now]
              ELSE [@ EXCEPT !.pc = "store", !.at = now,
                             !.code = MissStatus(obj, Val(cluster), now)]]
    /\ UNCHANGED <<now, match_ids, clusters, cache, memo>>

\* miss: redis_client.setex(cache_key, 3600, json.dumps(cache_data)); respond
RaceStore(p) ==
    /\ last[p].pc = "store"
    /\ cache' = CacheStore(cache, RaceKey, last[p].obj, now)
    /\ last' = [last EXCEPT ![p].pc = "done"]
    /\ UNCHANGED <<now, match_ids, clusters, memo>>

\* time passes at any point of the race
RaceTick(d) ==
    /\ now + d <= MaxNow
    /\ now' = now + d
    /\ cache' = Unexpired(cache, now + d)
    /\ UNCHANGED <<match_ids, clusters, last, memo>>

\* before the first request starts a payment may extend valid_till
RacePay(m, v) ==
    /\ RaceNotStarted
    /\ match_ids[m] # None
    /\ v > now
    /\ Val(match_ids[m]).valid_till # None => v > Val(Val(match_ids[m]).valid_till)
    /\ match_ids' = [match_ids EXCEPT ![m] =
          Some([Val(@) EXCEPT !.valid_till = Some(v),
                              !.last_paid_on = Some(now)])]
    /\ UNCHANGED <<now, clusters, cache, last, memo>>

NextRace ==
    \/ \E p \in RaceProcs : RaceGet(p)
    \/ \E p \in RaceProcs : RaceHit(p)
    \/ \E p \in RaceProcs : RaceRecord(p)
    \/ \E p \in RaceProcs : RaceCluster(p)
    \/ \E p \in RaceProcs : RaceStore(p)
    \/ \E d \in TickSteps : RaceTick(d)
    \/ \E m \in StoredMatchIds, v \in ValidTillValues : RacePay(m, v)

SpecRace == InitRace /\ [][NextRace]_vars

\* =====================================================================
\* Calls served from one entry over time
\* =====================================================================
\* The same requests and external writers as in Spec, without failures of
\* the collaborators.  Here memo is the set of entries, each identified by
\* its key and the instant it was written, from which a hit has answered
\* 410; last.before is 410 when the hit observed was served from one of them.
EntryId(c, k) == <<k, c[k].set_at>>
LiveIds(c, ids) == {e \in ids : e[1] \in DOMAIN c /\ EntryId(c, e[1]) = e}

InitDecay ==
    /\ now = 0
    /\ match_ids \in
         [StoredMatchIds ->
            {Some(MatchId(m, cn, Some(sh[1]), None, vt, sh[2])) :
                m \in StoredMatchIds, cn \in ClusterNames,
                sh \in RecordShapes,
                vt \in {None} \cup {Some(v) : v \in ValidTillValues}}]
    /\ \A m \in StoredMatchIds : Val(match_ids[m]).match_id = m
    /\ clusters \in
         [ClusterNames ->
            {Some(ClusterDetails(cn, "k1", tp)) :
                cn \in ClusterNames, tp \in TrialPeriods}]
    /\ \A cn \in ClusterNames : Val(clusters[cn]).cluster_name = cn
    /\ cache = << >>
    /\ last = NoCall
    /\ memo = {}

\* GET /check-match-id/?api_key=...&match_id=...
CheckDecay(api_key, match_id) ==
    LET r == check_match_id(api_key, match_id, "none")
        cache_key == get_cache_key(api_key, match_id)
        hit == ~InputsMissing(api_key, match_id) /\ redis_get(cache_key) # None
    IN  /\ cache' = r.c
        /\ last' = [api_key |-> api_key, match_id |-> match_id,
                    code |-> r.code, ops |-> r.ops,
                    raised |-> "none", inner |-> r.code, hit |-> hit,
                    before |-> IF hit /\ EntryId(cache, cache_key) \in memo
                               THEN 410 ELSE 0]
        /\ memo' = LiveIds(r.c, IF hit /\ r.code = 410
                                THEN memo \cup {EntryId(cache, cache_key)}
                                ELSE memo)
        /\ UNCHANGED <<now, match_ids, clusters>>

\* time passes; Redis expires the entries whose time-to-live has elapsed
TickDecay(d) ==
    /\ now + d <= MaxNow
    /\ now' = now + d
    /\ cache' = Unexpired(cache, now + d)
    /\ last' = NoCall
    /\ memo' = LiveIds(Unexpired(cache, now + d), memo)
    /\ UNCHANGED <<match_ids, clusters>>

\* a payment extends valid_till into the future (external writer)
PayDecay(m, v) ==
    /\ match_ids[m] # None
    /\ v > now
    /\ Val(match_ids[m]).valid_till # None => v > Val(Val(match_ids[m]).valid_till)
    /\ match_ids' = [match_ids EXCEPT ![m] =
          Some([Val(@) EXCEPT !.valid_till = Some(v),
                              !.last_paid_on = Some(now)])]
    /\ last' = NoCall
    /\ UNCHANGED <<now, clusters, cache, memo>>

\* the document is removed from match_ids (external writer)
DeleteRecordDecay(m) ==
    /\ match_ids[m] # None
    /\ match_ids' = [match_ids EXCEPT ![m] = None]
    /\ last' = NoCall
    /\ UNCHANGED <<now, clusters, cache, memo>>

\* the cluster's api_key or trial_period is changed (external writer)
SetClusterDecay(cn, key, tp) ==
    /\ clusters[cn] # Some(ClusterDetails(cn, key, tp))
    /\ clusters' = [clusters EXCEPT ![cn] = Some(ClusterDetails(cn, key, tp))]
    /\ last' = NoCall
    /\ UNCHANGED <<now, match_ids, cache, memo>>

NextDecay ==
    \/ \E k \in ClusterKeys, m \in StoredMatchIds : CheckDecay(k, m)
    \/ \E d \in TickSteps : TickDecay(d)
    \/ \E m \in StoredMatchIds, v \in ValidTillValues : PayDecay(m, v)
    \/ \E m \in StoredMatchIds : DeleteRecordDecay(m)
    \/ \E cn \in ClusterNames, key \in ClusterKeys, tp \in TrialPeriods :
          SetClusterDecay(cn, key, tp)

SpecDecay == InitDecay /\ [][NextDecay]_vars

\* =====================================================================
\* Properties
\* =====================================================================
\* In a state with last # NoCall the call observed has just returned: now,
\* match_ids and clusters are those the call saw, and cache is the cache it
\* left.

Range(q) == {q[i] : i \in DOMAIN q}

CallMade == last # NoCall
\* the call got past the argument check and no collaborator raised
Served == CallMade /\ last.api_key # "" /\ last.match_id # "" /\ last.raised = "none"
LastKey == "match_id:" \o last.api_key \o ":" \o last.match_id

\* the document and the owning cluster's policy in the store
StoredDoc ==
    IF last.match_id \in DOMAIN match_ids THEN match_ids[last.match_id] ELSE None
PolicyOf(cluster_name) ==
    IF cluster_name \in DOMAIN clusters THEN clusters[cluster_name] ELSE None
KeyOwns(cluster_name) ==
    /\ PolicyOf(cluster_name) # None
    /\ Val(PolicyOf(cluster_name)).api_key = last.api_key

\* the reference resolver of the specification (section 4.1)
PaidActive(valid_till, t) == valid_till # None /\ t < Val(valid_till)
InTrial(is_trial, created_on, trialPeriodDays, t) ==
    /\ is_trial
    /\ trialPeriodDays > 0
    /\ t <= created_on + trialPeriodDays * 86400
Resolve(valid_till, created_on, is_trial, trialPeriodDays, t) ==
    IF PaidActive(valid_till, t) /\ InTrial(is_trial, created_on, trialPeriodDays, t)
    THEN 201
    ELSE IF PaidActive(valid_till, t) THEN 200
    ELSE 410

\* the resolver applied to the document in the store
StoreStatus ==
    LET o == Val(StoredDoc)
    IN  Resolve(o.valid_till, Val(o.created_on), o.is_trial,
                Val(PolicyOf(o.cluster_name)).trial_period, now)

\* the fields held by the cache entry of the pair, timestamps as instants
Instant(iso) == iso.date * 86400 + iso.time
CachedFields ==
    LET d == Val(cache[LastKey].value.json)
    IN  [cluster_name |-> d.cluster_name,
         created_on |-> Instant(Val(d.created_on)),
         valid_till |-> IF d.valid_till = None THEN None
                        ELSE Some(Instant(Val(d.valid_till))),
         is_trial |-> d.is_trial]

\* the resolver applied to the cached fields under the current policy
CachedStatus ==
    LET d == CachedFields
    IN  Resolve(d.valid_till, d.created_on, d.is_trial,
                Val(PolicyOf(d.cluster_name)).trial_period, now)

\* a call served from the cache, its key accepted
ServedHit ==
    /\ Served
    /\ last.hit
    /\ LastKey \in DOMAIN cache
    /\ KeyOwns(CachedFields.cluster_name)

\* ---------------------------------------------------------------- C1
\* C1 (as claimed): when the entry of the pair resolves to Expired and the
\* document in the store has meanwhile a valid_till in the future (it
\* resolves to PaidActive), the call served from that entry reads the
\* document from the store, returns 200 and leaves the document's current
\* fields in the cache.
C1_Reconciliation ==
    ( /\ ServedHit
      /\ CachedStatus = 410
      /\ StoredDoc # None
      /\ KeyOwns(Val(StoredDoc).cluster_name)
      /\ StoreStatus = 200 )
    => /\ last.code = 200
       /\ "MatchId.objects" \in Range(last.ops)
       /\ cache[LastKey].value = [json |-> serialize_match_id(StoredDoc)]

\* ---------------------------------------------------------------- C2
\* C2 (as claimed): a call that finds the entry left by a call that
\* returned an active status returns that status and reads neither the
\* document nor the cluster policy.
C2_PositiveHitReadsNothing ==
    (Served /\ last.hit /\ last.before \in {200, 201})
    => /\ last.code = last.before
       /\ "MatchId.objects" \notin Range(last.ops)
       /\ "UserProfile.objects" \notin Range(last.ops)

\* C2 (amended): a call that finds an entry never reads the document and
\* never writes the cache; it reads the cluster policy, once, and when the
\* key is accepted it returns the status resolved from the cached fields at
\* the instant of the call.
C2_HitReadsPolicyOnly ==
    (CallMade /\ last.hit)
    => /\ "MatchId.objects" \notin Range(last.ops)
       /\ last.raised # "json.loads"
             => last.ops = <<"redis.get", "UserProfile.objects">>
       /\ ServedHit => last.code = CachedStatus

\* a call served from the entry left by a call that returned an active status
C2_Witness ==
    /\ ServedHit
    /\ last.before \in {200, 201}
    /\ last.code \in {200, 201}

\* ---------------------------------------------------------------- C3
\* C3 (as claimed): two calls for the same pair less than 3600 seconds
\* apart, the store unchanged in between, the first returning an active
\* status: the second returns the same status.
C3_SameStatusWithinTTL ==
    (Served /\ last.before \in {200, 201}) => last.code = last.before

\* C3 (amended): when the second call is served from the entry the first
\* one read or wrote, it returns the status resolved from the cached fields
\* at its own instant: the same status while now < valid_till and the trial
\* window has not closed in between, Expired once valid_till is reached,
\* PaidActive once only the trial window has closed.
C3_StatusDecaysWithinTTL ==
    (ServedHit /\ last.before \in {200, 201})
    => LET d == CachedFields
           tp == Val(PolicyOf(d.cluster_name)).trial_period
           paid == d.valid_till # None /\ now < Val(d.valid_till)
           trial == now <= d.created_on + tp * 86400
       IN  /\ ~paid => last.code = 410
           /\ (paid /\ (last.before = 201 => trial)) => last.code = last.before
           /\ (paid /\ last.before = 201 /\ ~trial) => last.code = 200

\* the second call finds the entry past its valid_till
C3_Witness ==
    /\ ServedHit
    /\ last.before = 200
    /\ last.code = 410

\* ---------------------------------------------------------------- C4
\* C4 (as claimed): on a cache miss, a key that belongs to no cluster gets
\* 404 whatever the match identifier, also when no document exists for it.
C4_KeyResolvedFirst ==
    (Served /\ ~last.hit /\ \A cn \in DOMAIN clusters : ~KeyOwns(cn))
    => last.code = 404

\* C4 (amended): on a cache miss the document is resolved first: when there
\* is none the call returns 422 whatever the key and the policy is not
\* read; 404 is returned once the document is found and the key is not the
\* key of the cluster owning it (or that cluster is missing).
C4_RecordResolvedFirst ==
    (Served /\ ~last.hit)
    => /\ StoredDoc = None
             => /\ last.code = 422
                /\ last.ops = <<"redis.get", "MatchId.objects">>
       /\ (StoredDoc # None /\ ~KeyOwns(Val(StoredDoc).cluster_name))
             => /\ last.code = 404
                /\ last.ops = <<"redis.get", "MatchId.objects",
                                "UserProfile.objects">>
       /\ (StoredDoc # None /\ KeyOwns(Val(StoredDoc).cluster_name))
             => last.code \in {200, 201, 410}

\* a key of no cluster asks for a match identifier that has no document
C4_Witness ==
    /\ Served
    /\ ~last.hit
    /\ \A cn \in DOMAIN clusters : ~KeyOwns(cn)
    /\ StoredDoc = None
    /\ last.code = 422

\* ---------------------------------------------------------------- C5
\* C5: a call that returns 404 or 422 leaves the cache exactly as it was
\* and calls no setex; a call that returns 422 has read the document store.
C5_NegativeLookupsNotCached ==
    [][ (last' # NoCall /\ last'.code \in {404, 422})
        => /\ cache' = cache
           /\ "redis.setex" \notin Range(last'.ops)
           /\ last'.code = 422 => "MatchId.objects" \in Range(last'.ops) ]_vars

\* a 422 for a match identifier without document while the cache holds an
\* entry: the store was read and the entry is still there
C5_Witness ==
    /\ CallMade
    /\ last.code = 422
    /\ StoredDoc = None
    /\ "MatchId.objects" \in Range(last.ops)
    /\ DOMAIN cache # {}

\* ---------------------------------------------------------------- C6
\* C6: on a cache miss with the document found and the key accepted, the
\* call returns what the reference resolver yields for the document, the
\* owning cluster's trial length and the instant of the call.
C6_MissMatchesResolver ==
    (Served /\ ~last.hit /\ StoredDoc # None
        /\ KeyOwns(Val(StoredDoc).cluster_name))
    => last.code = StoreStatus

\* a document inside its trial window without a running paid window: Expired
C6_Witness ==
    /\ Served
    /\ ~last.hit
    /\ StoredDoc # None
    /\ KeyOwns(Val(StoredDoc).cluster_name)
    /\ InTrial(Val(StoredDoc).is_trial, Val(Val(StoredDoc).created_on),
               Val(PolicyOf(Val(StoredDoc).cluster_name)).trial_period, now)
    /\ ~PaidActive(Val(StoredDoc).valid_till, now)
    /\ last.code = 410

\* ---------------------------------------------------------------- C7
\* C7 (as claimed): when the entry of the pair resolves to Expired and the
\* document is no longer in the store, the call returns 422.
C7_DeletedRecordSurfaces ==
    (ServedHit /\ CachedStatus = 410 /\ StoredDoc = None) => last.code = 422

\* ---------------------------------------------------------------- C8
\* C8: a call with an empty api_key or an empty match_id returns 400, makes
\* no collaborator call and leaves the cache as it was; no other call
\* returns 400.
C8_EmptyInputIsBadRequest ==
    [][ last' # NoCall
        => /\ (last'.api_key = "" \/ last'.match_id = "")
                 => /\ last'.code = 400
                    /\ last'.ops = << >>
                    /\ cache' = cache
           /\ last'.code = 400
                 => (last'.api_key = "" \/ last'.match_id = "") ]_vars

\* an empty api_key with a match identifier that is cached and stored
C8_Witness ==
    /\ CallMade
    /\ last.api_key = ""
    /\ last.match_id # ""
    /\ last.code = 400
    /\ last.ops = << >>
    /\ DOMAIN cache # {}

\* ---------------------------------------------------------------- C9
\* C9: a call in which a collaborator raised returns 500, and only such a
\* call does; otherwise the status the handler raised or returned (200,
\* 201, 404, 410, 422) reaches the caller unchanged.
C9_FailuresAre500 ==
    CallMade
    => /\ last.raised # "none" => last.code = 500
       /\ last.code = 500 => last.raised # "none"
       /\ last.raised = "none" => last.code = last.inner
       /\ Served => last.code \in {200, 201, 404, 410, 422}

\* the cached value cannot be decoded
C9_Witness ==
    /\ CallMade
    /\ last.hit
    /\ last.raised = "json.loads"
    /\ last.code = 500

\* --------------------------------------------------------------- C10
\* C10: every entry in the cache was written with a time-to-live of 3600
\* seconds, less than 3600 seconds ago; a cache miss with the document
\* found and the key accepted leaves the entry of the pair written at the
\* instant of the call with that time-to-live, whatever the status.
C10_EveryEntryLivesOneHour ==
    /\ \A k \in DOMAIN cache :
          /\ cache[k].ttl = 3600
          /\ cache[k].set_at <= now
          /\ now < cache[k].set_at + 3600
    /\ (Served /\ ~last.hit /\ StoredDoc # None
           /\ KeyOwns(Val(StoredDoc).cluster_name))
       => /\ LastKey \in DOMAIN cache
          /\ cache[LastKey].set_at = now
          /\ cache[LastKey].ttl = 3600
          /\ "redis.setex" \in Range(last.ops)

\* a miss that resolves to Expired has written its entry
C10_Witness ==
    /\ Served
    /\ ~last.hit
    /\ last.code = 410
    /\ LastKey \in DOMAIN cache
    /\ cache[LastKey].set_at = now

\* --------------------------------------------------------------- C11
\* C11: on the hit path and on the miss path alike, a call returns 200 or
\* 201 only when the cluster named by the document it evaluated (the cached
\* fields on a hit, the document of the store on a miss) exists at the time
\* of the call and has the presented api_key; when that cluster is missing
\* or has another key, also a key changed after the entry was cached, the
\* call returns 404.
C11_NoPositiveWithoutOwnersKey ==
    Served
    => LET has == last.hit \/ StoredDoc # None
           cn == IF last.hit THEN CachedFields.cluster_name
                 ELSE Val(StoredDoc).cluster_name
       IN  /\ last.code \in {200, 201} => (has /\ KeyOwns(cn))
           /\ (has /\ ~KeyOwns(cn)) => last.code = 404

\* an entry cached under a key the cluster has since replaced: 404 on a hit
C11_Witness ==
    /\ Served
    /\ last.hit
    /\ PolicyOf(CachedFields.cluster_name) # None
    /\ Val(PolicyOf(CachedFields.cluster_name)).api_key # last.api_key
    /\ PaidActive(CachedFields.valid_till, now)
    /\ last.code = 404

\* --------------------------------------------------------------- C12
\* C12 (as claimed): distinct pairs have distinct cache keys, so the entry a
\* call finds under the key of its pair was written for that pair: it holds
\* the document of the match_id the call asked for.
C12_EntryOfOwnPairOnly ==
    (CallMade /\ last.hit)
    => Val(cache[LastKey].value.json).match_id = last.match_id

\* --------------------------------------------------------------- C13
\* the fields held by a cached value, timestamps as instants
InstantOrNone(x) == IF x = None THEN None ELSE Some(Instant(Val(x)))
FieldsOf(value) ==
    LET d == Val(value.json)
    IN  [match_id |-> d.match_id, cluster_name |-> d.cluster_name,
         created_on |-> InstantOrNone(d.created_on),
         last_paid_on |-> InstantOrNone(d.last_paid_on),
         valid_till |-> InstantOrNone(d.valid_till),
         is_trial |-> d.is_trial]

\* what request p would have returned had it run alone: served from the
\* entry present before the race while that entry lives, from the store
\* otherwise, resolved at the instant p resolved its status
LoneCode(p) ==
    LET f == IF last[p].lone_hit THEN FieldsOf(memo.cache0[RaceKey].value)
             ELSE Val(match_ids[memo.match_id])
        policy == PolicyOf(f.cluster_name)
    IN  IF ~last[p].lone_hit /\ match_ids[memo.match_id] = None THEN 422
        ELSE IF policy = None \/ Val(policy).api_key # memo.api_key THEN 404
        ELSE Resolve(f.valid_till, Val(f.created_on), f.is_trial,
                     Val(policy).trial_period, last[p].at)

\* C13: under every interleaving of the steps of concurrent requests for
\* one pair, the store unchanged during the race, every request returns the
\* status it would have returned alone, and the entry of the pair is either
\* the one present before the race or holds the fields of the document in
\* the store with a time-to-live of 3600, as a lone request would write it.
C13_RaceIsBenign ==
    /\ \A p \in RaceProcs : last[p].pc = "done" => last[p].code = LoneCode(p)
    /\ RaceKey \in DOMAIN cache
          => \/ /\ RaceKey \in DOMAIN memo.cache0
                /\ cache[RaceKey] = memo.cache0[RaceKey]
             \/ /\ match_ids[memo.match_id] # None
                /\ FieldsOf(cache[RaceKey].value) = Val(match_ids[memo.match_id])
                /\ cache[RaceKey].ttl = 3600
                /\ \E p \in RaceProcs :
                      /\ last[p].pc = "done"
                      /\ ~last[p].hit
                      /\ last[p].at <= cache[RaceKey].set_at

\* two racing requests both missed and both wrote the entry, one resolving
\* before the paid window closed and one after it
C13_Witness ==
    \E p, q \in RaceProcs :
        /\ p # q
        /\ last[p].pc = "done" /\ ~last[p].hit /\ last[p].code = 200
        /\ last[q].pc = "done" /\ ~last[q].hit /\ last[q].code = 410
        /\ RaceKey \in DOMAIN cache

\* --------------------------------------------------------------- C14
\* the valid_till of the snapshot the call evaluated: the cached fields on
\* a hit, the document in the store on a miss
SnapshotPresent == last.hit \/ StoredDoc # None
SnapshotCluster ==
    IF last.hit THEN CachedFields.cluster_name ELSE Val(StoredDoc).cluster_name
SnapshotValidTill ==
    IF last.hit THEN CachedFields.valid_till ELSE Val(StoredDoc).valid_till

\* C14: a call that answers 200 or 201 at instant now evaluated a snapshot
\* whose valid_till is present and strictly later than now; a call whose key
\* is accepted and whose snapshot has no valid_till or one at or before now
\* answers 410, on a miss and on a hit alike.
C14_ElapsedWindowNeverActive ==
    Served
    => /\ last.code \in {200, 201}
            => /\ SnapshotPresent
               /\ SnapshotValidTill # None
               /\ now < Val(SnapshotValidTill)
       /\ ( /\ SnapshotPresent
            /\ KeyOwns(SnapshotCluster)
            /\ ~PaidActive(SnapshotValidTill, now) )
            => last.code = 410

\* a hit at the very instant valid_till, on an entry written while the
\* paid window was open, answers 410
C14_Witness ==
    /\ ServedHit
    /\ cache[LastKey].set_at < now
    /\ CachedFields.valid_till = Some(now)
    /\ last.code = 410

\* --------------------------------------------------------------- C15
\* the keys whose entry a step created or changed
Written == {k \in DOMAIN cache' : k \notin DOMAIN cache \/ cache'[k] # cache[k]}

\* C15: a call whose cache get returned an entry ends with 200, 201, 404,
\* 410 or 500, never calls setex and leaves every entry, content and
\* remaining time-to-live, as it was; an entry is created or changed only by
\* a call that missed the cache, found the document of its pair and had its
\* key accepted, and only under the key of that pair.
C15_HitNeverWrites ==
    [][ /\ (last' # NoCall /\ last'.hit)
            => /\ cache' = cache
               /\ "redis.setex" \notin Range(last'.ops)
               /\ last'.code \in {200, 201, 404, 410, 500}
        /\ Written # {}
            => /\ last' # NoCall
               /\ ~last'.hit
               /\ Written = {LastKey'}
               /\ StoredDoc' # None
               /\ KeyOwns(Val(StoredDoc).cluster_name)'
               /\ last'.code \in {200, 201, 410}
      ]_vars

\* a hit answered 201 from an entry part of whose time-to-live has elapsed
C15_Witness ==
    /\ ServedHit
    /\ last.code = 201
    /\ cache[LastKey].set_at < now
    /\ "redis.get" \in Range(last.ops)

\* --------------------------------------------------------------- C16
\* the document a store holds for the match_id of a cached value
RecordOf(store, value) ==
    LET m == FieldsOf(value).match_id
    IN  IF m \in DOMAIN store THEN store[m] ELSE None

\* C16: at every instant every entry was written less than 3600 seconds
\* ago, and at the instant it is written an entry holds the six fields
\* (match_id, cluster_name, created_on, last_paid_on, valid_till, is_trial)
\* of the document then in the store; entries never change otherwise, so a
\* status is always computed from a snapshot at most 3600 seconds old.
C16_BoundedStaleness ==
    /\ [](\A k \in DOMAIN cache :
             /\ cache[k].set_at <= now
             /\ now - cache[k].set_at < 3600)
    /\ [][\A k \in Written :
             /\ cache'[k].set_at = now'
             /\ RecordOf(match_ids', cache'[k].value) # None
             /\ FieldsOf(cache'[k].value) = Val(RecordOf(match_ids', cache'[k].value))
         ]_vars

\* a call served from an entry written earlier whose document has since
\* been paid for in the store: the stale snapshot still answers 410
C16_Witness ==
    /\ ServedHit
    /\ cache[LastKey].set_at < now
    /\ StoredDoc # None
    /\ FieldsOf(cache[LastKey].value) # Val(StoredDoc)
    /\ PaidActive(Val(StoredDoc).valid_till, now)
    /\ last.code = 410

\* --------------------------------------------------------------- C17
\* C17: the clock never going back, once a call served from an entry has
\* answered 410, no later call served from that same entry, before it
\* expires or is rewritten, answers 200 or 201, whatever was written to
\* match_ids or to the clusters in between: it answers 410, or 404 when the
\* key is no longer accepted.
C17_EntryOnlyDecays ==
    /\ (CallMade /\ last.hit /\ last.before = 410)
          => /\ last.code \notin {200, 201}
             /\ last.code = IF KeyOwns(CachedFields.cluster_name)
                            THEN 410 ELSE 404
    /\ \A e \in memo : e[1] \in DOMAIN cache /\ e[2] <= now

\* a second call served from an entry that answered 410 before, the
\* document having been paid for in the store in between
C17_Witness ==
    /\ ServedHit
    /\ last.before = 410
    /\ last.code = 410
    /\ StoredDoc # None
    /\ PaidActive(Val(StoredDoc).valid_till, now)
    /\ ~PaidActive(CachedFields.valid_till, now)

\* --------------------------------------------------------------- C18
\* the entry of the pair is the serialization of the document now in
\* match_ids: the document has not changed since the entry was written
EntryIsCurrent ==
    /\ StoredDoc # None
    /\ cache[LastKey].value = json_dumps(serialize_match_id(StoredDoc))

\* the status the miss path returns for the pair at this instant
MissOutcome ==
    ExceptClauses(CacheMiss(LastKey, last.api_key, last.match_id, "none",
                            <<"redis.get">>)).code

\* C18: when the document has not changed since the entry was written, a
\* call served from the cache returns the status (200, 201, 404 or 410)
\* that the miss path returns for the same pair, policy and instant.
C18_HitAgreesWithMiss ==
    (Served /\ last.hit /\ EntryIsCurrent)
    => /\ last.code = MissOutcome
       /\ last.code \in {200, 201, 404, 410}

\* a hit, some time after the entry was written, on a trial document whose
\* trial window has closed while its paid window is open
C18_Witness ==
    /\ ServedHit
    /\ EntryIsCurrent
    /\ cache[LastKey].set_at < now
    /\ Val(StoredDoc).is_trial
    /\ Val(PolicyOf(Val(StoredDoc).cluster_name)).trial_period > 0
    /\ last.code = 200

====
